---- MODULE Spec2Model ----
(***************************************************************************)
(* Verification model of the asynchronous task orchestration of the        *)
(* Gemini image editing server: the task registry, the background task     *)
(* runner process_task_and_notify and the retrying webhook notifier        *)
(* call_webhook (src/src/gemini_webapi/server/app.py), together with the   *)
(* session registry they write through ImageEditingService.start_session   *)
(* (src/src/gemini_webapi/server/service.py).                              *)
(*                                                                         *)
(* Python's None is the empty sequence, a present value x is <<x>>.        *)
(* Strings that the code takes apart (URLs, paths, file names) are         *)
(* sequences of their parts.                                               *)
(* Timestamps (created_at, updated_at) are not part of the state.          *)
(***************************************************************************)
EXTENDS Integers, Sequences, FiniteSets, TLC

VARIABLES
    tasks,      \* TaskStore._tasks: task id -> TaskData
    sessions,   \* SessionStore._sessions: session id -> SessionData
    pc,         \* position of the runner unit of each task id
    loc,        \* locals of process_task_and_notify: result, raised exception
    wh,         \* frame of the call_webhook invocation made for each task id
    obs,        \* observation log per task id: POSTs, sleeps, invocations
    req,        \* frame of the service turn of each synchronous request
    cfg,        \* ImageEditingService._output_dir and the base_url it was given
    held,       \* values callers hold after SessionStore.get
    clock,      \* datetime.utcnow(), in ticks
    locks       \* owner of SessionStore._lock and of TaskStore._lock

vars == <<tasks, sessions, pc, loc, wh, obs, req, cfg, held, clock, locks>>

----------------------------------------------------------------------------
(* Bounds and inputs *)

TaskIds == {"t1", "t2"}
SessionIds == {"s1", "s2"}

\* largest max_retries a direct caller of call_webhook passes
MaxRetries == 4

\* status codes an endpoint answers with; a transport failure is an exception
StatusCodes == {200, 399, 400, 503}

\* model names a request carries (None: not given)
ModelNames == {<<>>, <<"gemini-2.5-flash">>, <<"invalid-model">>}

\* names Model.from_name resolves
KnownModels == {"unspecified", "gemini-2.5-flash"}

\* what one engine turn produces: text and continuation metadata
EngineOutputs ==
    { [text |-> "ok", metadata |-> <<<<"cid1">>, <<"rid1">>, <<"rcid1">>>>,
       images |-> <<>>] }

\* the synchronous requests in flight at once
ReqIds == {"r1", "r2"}

\* exceptions a turn raises after the model was resolved
TurnExceptions ==
    {"HTTPError", "UsageLimitExceeded", "TimeoutError", "RuntimeError"}

----------------------------------------------------------------------------
(* Values *)

None == <<>>
Some(x) == <<x>>
IsPresent(o) == o # None

WEBHOOK_RETRY_ATTEMPTS == 3
WEBHOOK_RETRY_DELAY_SECONDS == 2

TerminalStatuses == {"completed", "failed"}

RECURSIVE Pow(_, _)
Pow(b, n) == IF n = 0 THEN 1 ELSE b * Pow(b, n - 1)

----------------------------------------------------------------------------
(* Task Store *)

TaskData(request, webhook_url) ==
    [status |-> "pending", request |-> request, webhook_url |-> webhook_url,
     result |-> None, error |-> None]

TaskStore_create(store, task_id, data) ==
    IF task_id \in DOMAIN store
    THEN [store EXCEPT ![task_id] = data]
    ELSE store @@ (task_id :> data)

TaskStore_missing(store, task_id) == task_id \notin DOMAIN store

TaskNotFoundError(task_id) ==
    [type |-> "TaskNotFoundError", args |-> <<task_id>>]

TaskStore_get(store, task_id) == store[task_id]

\* sets status and whichever of result / error the caller supplies
TaskStore_update_status(store, task_id, status, result, error) ==
    [store EXCEPT ![task_id] =
        [@ EXCEPT !.status = status,
                  !.result = IF IsPresent(result) THEN result ELSE @,
                  !.error = IF IsPresent(error) THEN error ELSE @]]

----------------------------------------------------------------------------
(* Session Store and the service's session start *)

\* asyncio.Lock() of each store, not held
FreeLocks == [session |-> None, task |-> None]

\* async with self._lock, entered: the lock is free and the caller takes it
acquire(lks, store, owner) == [lks EXCEPT ![store] = Some(owner)]

\* async with self._lock, left
release(lks, store) == [lks EXCEPT ![store] = None]

\* one store operation of owner: the block under the lock has no await, so
\* the lock is taken and given back within the step that runs it
Locked(store, owner) ==
    /\ locks[store] = None
    /\ locks' = release(acquire(locks, store, owner), store)

\* created_at and updated_at default to datetime.utcnow()
SessionData(metadata, model, gem) ==
    [metadata |-> metadata, model |-> model, gem |-> gem,
     created_at |-> clock, updated_at |-> clock]

\* a create that rebuilds the map around the new entry
SessionStore_create_Replace(store, session_id, data) ==
    (session_id :> data)

SessionStore_create(store, session_id, data) ==
    IF session_id \in DOMAIN store
    THEN [store EXCEPT ![session_id] = data]
    ELSE store @@ (session_id :> data)

SessionStore_missing(store, session_id) == session_id \notin DOMAIN store

\* an exception of the synchronous path: its class and its arguments
Exc(type) == [type |-> type, args |-> <<>>]

\* raise SessionNotFoundError(session_id)
SessionNotFoundError(session_id) ==
    [type |-> "SessionNotFoundError", args |-> <<session_id>>]

\* a get that hands out the stored list itself
SessionStore_get_Shared(store, session_id) ==
    [session_id |-> session_id,
     data |-> [metadata |-> store[session_id].metadata,
               model |-> store[session_id].model,
               gem |-> store[session_id].gem,
               created_at |-> store[session_id].created_at,
               updated_at |-> store[session_id].updated_at],
     aliases |-> {"metadata"}]

\* a new SessionData around a new list: the value shares nothing with the store
SessionStore_get(store, session_id) ==
    [session_id |-> session_id,
     data |-> [metadata |-> store[session_id].metadata,
               model |-> store[session_id].model,
               gem |-> store[session_id].gem,
               created_at |-> store[session_id].created_at,
               updated_at |-> store[session_id].updated_at],
     aliases |-> {}]

\* an update that adds to the stored list
SessionStore_update_metadata_Extend(store, session_id, metadata) ==
    [store EXCEPT ![session_id].metadata = @ \o metadata,
                  ![session_id].updated_at = clock]

\* an update that stores a new SessionData in place of the old one
SessionStore_update_metadata_Recreates(store, session_id, metadata) ==
    [store EXCEPT ![session_id] =
        SessionData(metadata, store[session_id].model, store[session_id].gem)]

SessionStore_update_metadata(store, session_id, metadata) ==
    [store EXCEPT ![session_id].metadata = metadata,
                  ![session_id].updated_at = clock]

\* Model.from_name raises ValueError on an unknown name
resolve_model_raises(model) ==
    /\ IsPresent(model)
    /\ model[1] \notin KnownModels

model_name(model) == IF IsPresent(model) THEN model[1] ELSE "unspecified"

\* secrets.token_urlsafe(16): an id no session carries yet
generate_session_id(store) == CHOOSE s \in SessionIds : s \notin DOMAIN store

ConversationResponse(session_id, output) ==
    [type |-> "ConversationResponse", session_id |-> session_id,
     text |-> output.text, metadata |-> output.metadata,
     images |-> output.images, thoughts |-> None]

\* BaseModel.model_dump: the plain dict of the response's fields
model_dump(result) ==
    [session_id |-> result.session_id, text |-> result.text,
     metadata |-> result.metadata, images |-> result.images,
     thoughts |-> result.thoughts]

----------------------------------------------------------------------------
(* Service configuration and the frame of one service turn *)

\* GEMINI_IMAGE_OUTPUT_DIR's default, no base URL
DefaultConfig ==
    [output_dir |-> [absolute |-> TRUE, segs |-> <<"data", "outputs">>],
     base_url |-> None]

IdleReq ==
    [pc |-> "idle", kind |-> "", session_id |-> None, model |-> None,
     gem |-> None, urls |-> <<>>, files |-> <<>>, tmp |-> None,
     chat |-> None, sent |-> None, output |-> None, ret |-> None,
     exc |-> None, engine_calls |-> 0]

----------------------------------------------------------------------------
(* Webhook Notifier: call_webhook *)

IdleFrame ==
    [pc |-> "idle", payload |-> None, max_retries |-> 0, attempt |-> 0,
     ret |-> None]

IdleObs ==
    [calls |-> 0, posts |-> 0, sleeps |-> <<>>, okSeen |-> FALSE,
     response |-> None, turns |-> 0]

\* variant of RangeNext: the loop bound is inclusive
RangeNext_Inclusive(attempt, max_retries) ==
    IF attempt <= max_retries THEN "post" ELSE "return_false"

\* "for attempt in range(max_retries)": the next position of the loop
RangeNext(attempt, max_retries) ==
    IF attempt < max_retries THEN "post" ELSE "return_false"

\* variant of IsSuccess: only 2xx answers count
IsSuccess_2xx(status_code) == status_code < 300

\* variant of IsSuccess: the comparison admits 400
IsSuccess_Inclusive(status_code) == status_code <= 400

IsSuccess(status_code) == status_code < 400

SleepsAfter(attempt, max_retries) == attempt < max_retries - 1

\* variant of BackoffDelay: the delay grows linearly
BackoffDelay_Linear(attempt) == WEBHOOK_RETRY_DELAY_SECONDS * (attempt + 1)

BackoffDelay(attempt) == WEBHOOK_RETRY_DELAY_SECONDS * Pow(2, attempt)

\* the frame on entry and up to the first suspension point
call_webhook(payload, max_retries) ==
    LET next == RangeNext(0, max_retries) IN
    [pc |-> IF next = "post" THEN "post" ELSE "done",
     payload |-> Some(payload), max_retries |-> max_retries, attempt |-> 0,
     ret |-> IF next = "post" THEN None ELSE Some(FALSE)]

\* the frame after the loop body of one attempt is over without a return
AfterFailedAttempt(f) ==
    IF SleepsAfter(f.attempt, f.max_retries)
    THEN [f EXCEPT !.pc = "sleep"]
    ELSE LET next == RangeNext(f.attempt + 1, f.max_retries) IN
         IF next = "post"
         THEN [f EXCEPT !.pc = "post", !.attempt = f.attempt + 1]
         ELSE [f EXCEPT !.pc = "done", !.attempt = f.attempt + 1,
                        !.ret = Some(FALSE)]

\* one POST attempt answered with a status code
WebhookPostResponse(t, status_code) ==
    /\ wh[t].pc = "post"
    /\ wh' = [wh EXCEPT ![t] =
                IF IsSuccess(status_code)
                THEN [@ EXCEPT !.pc = "done", !.ret = Some(TRUE)]
                ELSE AfterFailedAttempt(@)]
    /\ obs' = [obs EXCEPT ![t].posts = @ + 1,
                          ![t].okSeen = @ \/ (status_code < 400)]
    /\ UNCHANGED <<tasks, sessions, pc, loc, req, cfg, held, clock, locks>>

\* one POST attempt that ends in a transport exception
WebhookPostException(t) ==
    /\ wh[t].pc = "post"
    /\ wh' = [wh EXCEPT ![t] = AfterFailedAttempt(@)]
    /\ obs' = [obs EXCEPT ![t].posts = @ + 1]
    /\ UNCHANGED <<tasks, sessions, pc, loc, req, cfg, held, clock, locks>>

\* the backoff sleep between two attempts
WebhookSleep(t) ==
    /\ wh[t].pc = "sleep"
    /\ LET f == wh[t]
           next == RangeNext(f.attempt + 1, f.max_retries) IN
       wh' = [wh EXCEPT ![t] =
                IF next = "post"
                THEN [f EXCEPT !.pc = "post", !.attempt = f.attempt + 1]
                ELSE [f EXCEPT !.pc = "done", !.attempt = f.attempt + 1,
                               !.ret = Some(FALSE)]]
    /\ obs' = [obs EXCEPT ![t].sleeps = Append(@, BackoffDelay(wh[t].attempt))]
    /\ UNCHANGED <<tasks, sessions, pc, loc, req, cfg, held, clock, locks>>

----------------------------------------------------------------------------
(* Task Runner: process_task_and_notify *)

IdleLocals == [result |-> None, exc |-> None]

\* the exception types named by the first except clause
RecognizedExceptions ==
    {"InvalidModelError", "HTTPError", "APIError", "ImageGenerationError",
     "TimeoutError", "UsageLimitExceeded", "TemporarilyBlocked", "ModelInvalid"}

\* variant of ExceptClause: no catch-all clause
ExceptClause_Narrow(exc) ==
    IF exc \in RecognizedExceptions THEN "recognized" ELSE "escape"

\* which except clause of process_task_and_notify takes an exception
ExceptClause(exc) ==
    IF exc \in RecognizedExceptions THEN "recognized" ELSE "unexpected"

\* str(exc)
Str(exc) == <<exc>>

ErrorMessage(exc) ==
    IF ExceptClause(exc) = "recognized"
    THEN Str(exc)
    ELSE <<"Unexpected error: ">> \o Str(exc)

CompletedPayload(task_id, result) ==
    [task_id |-> task_id, status |-> "completed",
     result |-> Some(model_dump(result)), error |-> None]

\* variant of FailedPayload: the payload carries a fixed text
FailedPayload_Generic(task_id, error_message) ==
    [task_id |-> task_id, status |-> "failed",
     result |-> None, error |-> Some(<<"Task failed">>)]

FailedPayload(task_id, error_message) ==
    [task_id |-> task_id, status |-> "failed",
     result |-> None, error |-> Some(error_message)]

Raise(t, exc) ==
    /\ pc' = [pc EXCEPT ![t] = "except"]
    /\ loc' = [loc EXCEPT ![t].exc = Some(exc)]

\* the 202 answer of POST /sessions/async
TaskCreatedResponse(task_id) ==
    [status_code |-> 202, task_id |-> task_id, status |-> "pending"]

\* GET /tasks/{task_id}
get_task_status(store, task_id) ==
    IF TaskStore_missing(store, task_id)
    THEN [status_code |-> 404, task_id |-> task_id, status |-> "",
          result |-> None, error |-> None]
    ELSE LET task == TaskStore_get(store, task_id) IN
         [status_code |-> 200, task_id |-> task_id, status |-> task.status,
          result |-> task.result, error |-> task.error]

\* variant of start_session_async: the runner is spawned, the task not registered
start_session_async_Unregistered(t, model) ==
    /\ pc[t] = "none"
    /\ TaskStore_missing(tasks, t)
    /\ pc' = [pc EXCEPT ![t] = "spawned"]
    /\ obs' = [obs EXCEPT ![t].response = Some(TaskCreatedResponse(t))]
    /\ UNCHANGED <<tasks, sessions, loc, wh, req, cfg, held, clock, locks>>

\* POST /sessions/async: register the task as pending and spawn its runner
start_session_async(t, model) ==
    /\ pc[t] = "none"
    /\ TaskStore_missing(tasks, t)
    /\ LET request == [prompt |-> "edit", image_urls |-> <<>>,
                       model |-> model, gem |-> None]
           task_data == TaskData(request, "https://example.com/webhook") IN
       tasks' = TaskStore_create(tasks, t, task_data)
    /\ pc' = [pc EXCEPT ![t] = "spawned"]
    /\ obs' = [obs EXCEPT ![t].response = Some(TaskCreatedResponse(t))]
    /\ Locked("task", t)
    /\ UNCHANGED <<sessions, loc, wh, req, cfg, held, clock>>

\* variant of RunnerBegin: the runner starts the turn without the status write
RunnerBegin_NoWrite(t) ==
    /\ pc[t] = "spawned"
    /\ pc' = [pc EXCEPT ![t] = "start_session"]
    /\ UNCHANGED <<tasks, sessions, loc, wh, obs, req, cfg, held, clock, locks>>

\* line 91: update_status(task_id, "processing")
RunnerBegin(t) ==
    /\ pc[t] = "spawned"
    /\ IF TaskStore_missing(tasks, t)
       THEN /\ Raise(t, "TaskNotFoundError")
            /\ UNCHANGED tasks
       ELSE /\ tasks' = TaskStore_update_status(tasks, t, "processing", None, None)
            /\ pc' = [pc EXCEPT ![t] = "start_session"]
            /\ UNCHANGED loc
    /\ Locked("task", t)
    /\ UNCHANGED <<sessions, wh, obs, req, cfg, held, clock>>

\* lines 93-98: service.start_session raises InvalidModelError
RunnerInvalidModel(t) ==
    /\ pc[t] = "start_session"
    /\ resolve_model_raises(TaskStore_get(tasks, t).request.model)
    /\ Raise(t, "InvalidModelError")
    /\ UNCHANGED <<tasks, sessions, wh, obs, req, cfg, held, clock, locks>>

\* lines 93-98: the turn fails after the model was resolved
RunnerTurnRaises(t, exc) ==
    /\ pc[t] = "start_session"
    /\ ~ resolve_model_raises(TaskStore_get(tasks, t).request.model)
    /\ Raise(t, exc)
    /\ obs' = [obs EXCEPT ![t].turns = @ + 1]
    /\ UNCHANGED <<tasks, sessions, wh, req, cfg, held, clock, locks>>

\* lines 93-98: the turn succeeds, the session is registered
RunnerTurnReturns(t, output) ==
    /\ pc[t] = "start_session"
    /\ LET request == TaskStore_get(tasks, t).request IN
       /\ ~ resolve_model_raises(request.model)
       /\ LET session_id == generate_session_id(sessions) IN
          /\ sessions' = SessionStore_create(sessions, session_id,
                            SessionData(output.metadata,
                                        model_name(request.model), request.gem))
          /\ loc' = [loc EXCEPT ![t].result =
                        Some(ConversationResponse(session_id, output))]
    /\ pc' = [pc EXCEPT ![t] = "update_completed"]
    /\ obs' = [obs EXCEPT ![t].turns = @ + 1]
    /\ Locked("session", t)
    /\ UNCHANGED <<tasks, wh, req, cfg, held, clock>>

\* variant of RunnerComplete: the notifier is reached without the status write
RunnerComplete_NoWrite(t) ==
    /\ pc[t] = "update_completed"
    /\ pc' = [pc EXCEPT ![t] = "build_payload"]
    /\ UNCHANGED <<tasks, sessions, loc, wh, obs, req, cfg, held, clock, locks>>

\* line 100: update_status(task_id, "completed", result=result)
RunnerComplete(t) ==
    /\ pc[t] = "update_completed"
    /\ IF TaskStore_missing(tasks, t)
       THEN /\ Raise(t, "TaskNotFoundError")
            /\ UNCHANGED tasks
       ELSE /\ tasks' = TaskStore_update_status(tasks, t, "completed",
                                                loc[t].result, None)
            /\ pc' = [pc EXCEPT ![t] = "build_payload"]
            /\ UNCHANGED loc
    /\ Locked("task", t)
    /\ UNCHANGED <<sessions, wh, obs, req, cfg, held, clock>>

\* lines 103-115: the result is read and dumped, the notifier is entered
RunnerNotifyCompleted(t) ==
    /\ pc[t] = "build_payload"
    /\ wh' = [wh EXCEPT ![t] =
                call_webhook(CompletedPayload(t, loc[t].result[1]),
                             WEBHOOK_RETRY_ATTEMPTS)]
    /\ obs' = [obs EXCEPT ![t].calls = @ + 1]
    /\ pc' = [pc EXCEPT ![t] = "call_webhook"]
    /\ UNCHANGED <<tasks, sessions, loc, req, cfg, held, clock, locks>>

\* lines 103-108: reading or dumping the result raises inside the try block
RunnerDumpRaises(t) ==
    /\ pc[t] = "build_payload"
    /\ Raise(t, "AttributeError")
    /\ UNCHANGED <<tasks, sessions, wh, obs, req, cfg, held, clock, locks>>

\* variant of RunnerExcept: the except clause records the failure only
RunnerExcept_NoNotify(t) ==
    /\ pc[t] = "except"
    /\ tasks' = TaskStore_update_status(tasks, t, "failed", None,
                                        Some(ErrorMessage(loc[t].exc[1])))
    /\ pc' = [pc EXCEPT ![t] = "done"]
    /\ UNCHANGED <<sessions, loc, wh, obs, req, cfg, held, clock, locks>>

\* an except clause that ends the unit without a word
RunnerExcept_Silent(t) ==
    /\ pc[t] = "except"
    /\ pc' = [pc EXCEPT ![t] = "done"]
    /\ UNCHANGED <<tasks, sessions, loc, wh, obs, req, cfg, held, clock, locks>>

\* lines 117-142: an except clause records the failure and enters the notifier
RunnerExcept(t) ==
    /\ pc[t] = "except"
    /\ LET exc == loc[t].exc[1] IN
       IF ExceptClause(exc) = "escape" \/ TaskStore_missing(tasks, t)
       THEN /\ pc' = [pc EXCEPT ![t] = "escaped"]
            /\ UNCHANGED <<tasks, wh, obs, locks>>
       ELSE /\ tasks' = TaskStore_update_status(tasks, t, "failed", None,
                                                Some(ErrorMessage(exc)))
            /\ Locked("task", t)
            /\ wh' = [wh EXCEPT ![t] =
                        call_webhook(FailedPayload(t, ErrorMessage(exc)),
                                     WEBHOOK_RETRY_ATTEMPTS)]
            /\ obs' = [obs EXCEPT ![t].calls = @ + 1]
            /\ pc' = [pc EXCEPT ![t] = "call_webhook"]
    /\ UNCHANGED <<sessions, loc, req, cfg, held, clock>>

\* variant of RunnerReturn: an undelivered notification fails the task
RunnerReturn_FailsTask(t) ==
    /\ pc[t] = "call_webhook"
    /\ wh[t].pc = "done"
    /\ tasks' = IF wh[t].ret = Some(FALSE)
                THEN TaskStore_update_status(tasks, t, "failed", None,
                                             Some(<<"webhook not delivered">>))
                ELSE tasks
    /\ pc' = [pc EXCEPT ![t] = "done"]
    /\ UNCHANGED <<sessions, loc, wh, obs, req, cfg, held, clock, locks>>

\* a unit that runs the turn again when the notification was not delivered
RunnerReturn_RetriesTurn(t) ==
    /\ pc[t] = "call_webhook"
    /\ wh[t].pc = "done"
    /\ pc' = [pc EXCEPT ![t] = IF wh[t].ret = Some(FALSE)
                               THEN "start_session" ELSE "done"]
    /\ UNCHANGED <<tasks, sessions, loc, wh, obs, req, cfg, held, clock, locks>>

\* call_webhook returned: the unit of work ends
RunnerReturn(t) ==
    /\ pc[t] = "call_webhook"
    /\ wh[t].pc = "done"
    /\ pc' = [pc EXCEPT ![t] = "done"]
    /\ UNCHANGED <<tasks, sessions, loc, wh, obs, req, cfg, held, clock, locks>>

----------------------------------------------------------------------------
(* Image Acquisition Pipeline: _files_from_urls *)

NameA == [stem |-> <<"a">>, ext |-> ".png"]
NameA1 == [stem |-> <<"a", 1>>, ext |-> ".png"]
NameRaw == [stem |-> <<"raw">>, ext |-> ""]
NameDir == [stem |-> <<"img">>, ext |-> ""]

\* https://h/a.png, https://g/img/a.png?x=1, https://h/a_1.png, https://h/raw
Urls ==
    { [host |-> "h", segs |-> <<NameA>>, query |-> ""],
      [host |-> "g", segs |-> <<NameDir, NameA>>, query |-> "x=1"],
      [host |-> "h", segs |-> <<NameA1>>, query |-> ""],
      [host |-> "h", segs |-> <<NameRaw>>, query |-> ""] }

\* most URLs one request carries
MaxUrls == 3

UrlLists == UNION { [1 .. n -> Urls] : n \in 1 .. MaxUrls }

\* Path(url.split("?")[0]).name or "image"
url_filename(url) ==
    IF url.segs = <<>>
    THEN [stem |-> <<"image">>, ext |-> ""]
    ELSE url.segs[Len(url.segs)]

\* f"{Path(filename).stem}_{suffix}{Path(filename).suffix or '.bin'}"
Suffixed(filename, suffix) ==
    [stem |-> filename.stem \o <<suffix>>,
     ext |-> IF filename.ext = "" THEN ".bin" ELSE filename.ext]

RECURSIVE FreeTarget(_, _, _, _)
\* while target.exists(): suffix += 1; target = ...
FreeTarget(dir, filename, target, suffix) ==
    IF target \in DOMAIN dir
    THEN FreeTarget(dir, filename, Suffixed(filename, suffix + 1), suffix + 1)
    ELSE target

\* the first candidate, taken without looking
download_target_NoLoop(dir, url) == url_filename(url)

download_target(dir, url) ==
    FreeTarget(dir, url_filename(url), url_filename(url), 0)

\* response.content of a URL
content(url) == [host |-> url.host, segs |-> url.segs, query |-> url.query]

write_bytes(dir, target, bytes) ==
    IF target \in DOMAIN dir
    THEN [dir EXCEPT ![target] = bytes]
    ELSE dir @@ (target :> bytes)

EmptyDir == [n \in {} |-> None]

\* _files_from_urls up to its first suspension point
files_from_urls(f, urls) ==
    IF urls = <<>>
    THEN [f EXCEPT !.pc = "engine", !.urls = urls, !.files = <<>>]
    ELSE [f EXCEPT !.pc = "fetch", !.urls = urls,
                   !.files = [i \in 1 .. Len(urls) |-> None],
                   !.tmp = Some(EmptyDir)]

\* one download of the batch is answered and written to the scratch area
DownloadOk(r, i) ==
    /\ req[r].pc = "fetch"
    /\ i \in 1 .. Len(req[r].urls)
    /\ req[r].files[i] = None
    /\ LET f == req[r]
           dir == f.tmp[1]
           target == download_target(dir, f.urls[i])
           files == [f.files EXCEPT ![i] = Some(target)] IN
       req' = [req EXCEPT ![r] =
                 [f EXCEPT !.tmp = Some(write_bytes(dir, target, content(f.urls[i]))),
                           !.files = files,
                           !.pc = IF \A j \in 1 .. Len(files) : IsPresent(files[j])
                                  THEN "engine" ELSE "fetch"]]
    /\ UNCHANGED <<tasks, sessions, pc, loc, wh, obs, cfg, held, clock, locks>>

\* a failed download is passed over and the batch goes on
DownloadFail_Skip(r, i) ==
    /\ req[r].pc = "fetch"
    /\ i \in 1 .. Len(req[r].urls)
    /\ req[r].files[i] = None
    /\ LET f == req[r]
           files == [f.files EXCEPT ![i] = Some([stem |-> <<"skipped">>, ext |-> ""])] IN
       req' = [req EXCEPT ![r] =
                 [f EXCEPT !.files = files,
                           !.pc = IF \A j \in 1 .. Len(files) : IsPresent(files[j])
                                  THEN "engine" ELSE "fetch"]]
    /\ UNCHANGED <<tasks, sessions, pc, loc, wh, obs, cfg, held, clock, locks>>

\* one download fails: gather raises, the scratch area is removed
DownloadFail(r, i) ==
    /\ req[r].pc = "fetch"
    /\ i \in 1 .. Len(req[r].urls)
    /\ req[r].files[i] = None
    /\ req' = [req EXCEPT ![r] =
                 [@ EXCEPT !.pc = "done", !.exc = Some(Exc("HTTPError")),
                           !.tmp = None, !.files = <<>>]]
    /\ UNCHANGED <<tasks, sessions, pc, loc, wh, obs, cfg, held, clock, locks>>

----------------------------------------------------------------------------
(* Output persist: the public url of a stored image *)

\* base_url.rstrip("/")
RECURSIVE rstrip(_)
rstrip(text) ==
    IF text # <<>> /\ text[Len(text)] = "/"
    THEN rstrip(SubSeq(text, 1, Len(text) - 1))
    ELSE text

\* ImageEditingService.__init__: self._base_url
service_base_url(base_url) ==
    IF IsPresent(base_url) /\ base_url[1] # <<>>
    THEN Some(rstrip(base_url[1]))
    ELSE None

\* Path.resolve() in a file system where the working directory is /app and
\* /tmp is a link to /private/tmp
resolve(path) ==
    IF ~ path.absolute
    THEN [absolute |-> TRUE, segs |-> <<"app">> \o path.segs]
    ELSE IF path.segs # <<>> /\ path.segs[1] = "tmp"
         THEN [absolute |-> TRUE, segs |-> <<"private">> \o path.segs]
         ELSE path

\* Path.relative_to raises ValueError
relative_to_raises(path, dir) ==
    \/ path.absolute # dir.absolute
    \/ Len(dir.segs) > Len(path.segs)
    \/ SubSeq(path.segs, 1, Len(dir.segs)) # dir.segs

relative_to(path, dir) == SubSeq(path.segs, Len(dir.segs) + 1, Len(path.segs))

RECURSIVE as_posix(_)
as_posix(segs) ==
    IF Len(segs) <= 1 THEN segs
    ELSE <<segs[1], "/">> \o as_posix(Tail(segs))

\* lines 234-251 of service.py, for one image
image_url(base_url, output_dir, path) ==
    LET prefix == IF IsPresent(base_url) /\ base_url[1] # <<>>
                  THEN base_url[1] \o <<"/">>
                  ELSE <<"/", "images", "/">> IN
    IF relative_to_raises(path, output_dir)
    THEN prefix \o <<path.segs[Len(path.segs)]>>
    ELSE prefix \o as_posix(relative_to(path, output_dir))

\* _serialize_images: the payload of one produced image
ImagePayload(image, config) ==
    LET path == [absolute |-> TRUE,
                 segs |-> resolve(config.output_dir).segs \o <<image.file>>] IN
    [title |-> image.title, path |-> path,
     url |-> image_url(service_base_url(config.base_url), config.output_dir, path)]

----------------------------------------------------------------------------
(* ImageEditingService: start_session, continue_session, _send *)

\* outputs of the engine for a synchronous turn
TurnOutputs ==
    { [text |-> "First", metadata |-> <<<<"cid1">>, <<"rid1">>, <<"rcid1">>>>,
       images |-> <<>>],
      [text |-> "Second", metadata |-> <<<<"cid2">>, <<"rid2">>, <<"rcid2">>>>,
       images |-> <<[title |-> "Generated", file |-> "20260101_ab12cd34.png"]>>] }

\* failures the engine reports
EngineExceptions == {"UsageLimitExceeded", "TimeoutError"}

Prompts == {"", "edit"}

\* URL lists of a synchronous turn
TurnUrlLists ==
    { <<>>,
      <<[host |-> "h", segs |-> <<NameA>>, query |-> ""],
        [host |-> "g", segs |-> <<NameDir, NameA>>, query |-> "x=1"]>> }

\* GeminiClient.start_chat
start_chat(model, gem, metadata) ==
    [model |-> model, gem |-> gem,
     metadata |-> IF IsPresent(metadata) THEN metadata[1]
                  ELSE <<None, None, None>>]

\* ChatSession.send_message: the chat takes the output's metadata
send_message(chat, output) == [chat EXCEPT !.metadata = output.metadata]

TurnRaises(f, exc) ==
    [f EXCEPT !.pc = "done", !.exc = Some(exc), !.tmp = None, !.files = <<>>]

StartsInFlight ==
    Cardinality({r \in ReqIds : req[r].kind = "start"
                                /\ req[r].pc \notin {"idle", "done"}})

\* start_session up to the first suspension point
ServiceStartSession(r, prompt, urls, model) ==
    /\ req[r].pc = "idle"
    /\ Cardinality(DOMAIN sessions) + StartsInFlight < Cardinality(SessionIds)
    /\ LET f == [IdleReq EXCEPT !.kind = "start"] IN
       req' = [req EXCEPT ![r] =
                 IF resolve_model_raises(model)
                 THEN TurnRaises(f, Exc("InvalidModelError"))
                 ELSE IF prompt = ""
                 THEN TurnRaises(f, Exc("ValueError"))
                 ELSE files_from_urls(
                        [f EXCEPT !.chat = Some(start_chat(model, None, None))],
                        urls)]
    /\ UNCHANGED <<tasks, sessions, pc, loc, wh, obs, cfg, held, clock, locks>>

\* continue_session whose turn runs inside the block that reads the session
ServiceContinueSession_HoldsLock(r, session_id, prompt, urls) ==
    /\ req[r].pc = "idle"
    /\ LET f == [IdleReq EXCEPT !.kind = "continue",
                                !.session_id = Some(session_id)] IN
       req' = [req EXCEPT ![r] =
                 IF SessionStore_missing(sessions, session_id)
                 THEN TurnRaises(f, SessionNotFoundError(session_id))
                 ELSE LET stored == SessionStore_get(sessions, session_id).data IN
                      IF resolve_model_raises(Some(stored.model))
                      THEN TurnRaises(f, Exc("InvalidModelError"))
                      ELSE IF prompt = ""
                      THEN TurnRaises(f, Exc("ValueError"))
                      ELSE files_from_urls(
                             [f EXCEPT !.chat =
                                Some(start_chat(Some(stored.model), stored.gem,
                                                Some(stored.metadata)))],
                             urls)]
    /\ locks["session"] = None
    /\ locks' = acquire(locks, "session", r)
    /\ UNCHANGED <<tasks, sessions, pc, loc, wh, obs, cfg, held, clock>>

\* continue_session up to the first suspension point
ServiceContinueSession(r, session_id, prompt, urls) ==
    /\ req[r].pc = "idle"
    /\ LET f == [IdleReq EXCEPT !.kind = "continue",
                                !.session_id = Some(session_id)] IN
       req' = [req EXCEPT ![r] =
                 IF SessionStore_missing(sessions, session_id)
                 THEN TurnRaises(f, SessionNotFoundError(session_id))
                 ELSE LET stored == SessionStore_get(sessions, session_id).data IN
                      IF resolve_model_raises(Some(stored.model))
                      THEN TurnRaises(f, Exc("InvalidModelError"))
                      ELSE IF prompt = ""
                      THEN TurnRaises(f, Exc("ValueError"))
                      ELSE files_from_urls(
                             [f EXCEPT !.chat =
                                Some(start_chat(Some(stored.model), stored.gem,
                                                Some(stored.metadata)))],
                             urls)]
    /\ Locked("session", r)
    /\ UNCHANGED <<tasks, sessions, pc, loc, wh, obs, cfg, held, clock>>

\* the end of the turn: the response, then the write to the Session Store
TurnCompletes(r, f, images) ==
    LET session_id == IF IsPresent(f.session_id) THEN f.session_id[1]
                      ELSE generate_session_id(sessions)
        chat == f.chat[1]
        response == ConversationResponse(session_id,
                        [f.output[1] EXCEPT !.images = images])
        done == [f EXCEPT !.pc = "done", !.ret = Some(response),
                          !.tmp = None, !.files = <<>>] IN
    IF f.kind = "start"
    THEN /\ sessions' = SessionStore_create(sessions, session_id,
                            SessionData(chat.metadata, model_name(chat.model),
                                        chat.gem))
         /\ req' = [req EXCEPT ![r] = done]
    ELSE IF SessionStore_missing(sessions, session_id)
    THEN /\ sessions' = sessions
         /\ req' = [req EXCEPT ![r] = TurnRaises(f, SessionNotFoundError(session_id))]
    ELSE /\ sessions' = SessionStore_update_metadata(sessions, session_id,
                                                     chat.metadata)
         /\ req' = [req EXCEPT ![r] = done]

\* chat.send_message returns; the scratch area is removed
EngineReturns(r, output) ==
    /\ req[r].pc = "engine"
    /\ LET f == [req[r] EXCEPT !.engine_calls = @ + 1,
                               !.sent = Some(req[r].chat[1].metadata),
                               !.chat = Some(send_message(req[r].chat[1], output)),
                               !.output = Some(output),
                               !.tmp = None] IN
       IF output.images = <<>>
       THEN /\ TurnCompletes(r, f, <<>>)
            /\ Locked("session", r)
       ELSE /\ req' = [req EXCEPT ![r] = [f EXCEPT !.pc = "serialize"]]
            /\ UNCHANGED <<sessions, locks>>
    /\ UNCHANGED <<tasks, pc, loc, wh, obs, cfg, held, clock>>

\* the engine's failure leaves the scratch area behind
EngineRaises_KeepsScratch(r, exc) ==
    /\ req[r].pc = "engine"
    /\ req' = [req EXCEPT ![r] =
                 [@ EXCEPT !.pc = "done", !.exc = Some(Exc(exc)),
                           !.engine_calls = @ + 1,
                           !.sent = Some(req[r].chat[1].metadata)]]
    /\ UNCHANGED <<tasks, sessions, pc, loc, wh, obs, cfg, held, clock, locks>>

\* chat.send_message raises; the scratch area is removed
EngineRaises(r, exc) ==
    /\ req[r].pc = "engine"
    /\ req' = [req EXCEPT ![r] =
                 TurnRaises([@ EXCEPT !.engine_calls = @ + 1,
                                      !.sent = Some(req[r].chat[1].metadata)],
                            Exc(exc))]
    /\ UNCHANGED <<tasks, sessions, pc, loc, wh, obs, cfg, held, clock, locks>>

\* _serialize_images returns: urls are computed and the turn ends
SerializeReturns(r) ==
    /\ req[r].pc = "serialize"
    /\ LET f == req[r]
           produced == f.output[1].images IN
       TurnCompletes(r, f, [i \in 1 .. Len(produced) |->
                               ImagePayload(produced[i], cfg)])
    /\ Locked("session", r)
    /\ UNCHANGED <<tasks, pc, loc, wh, obs, cfg, held, clock>>

\* a turn that writes the store before it persists the produced images
SerializeRaises_Stored(r) ==
    /\ req[r].pc = "serialize"
    /\ LET f == req[r]
           chat == f.chat[1] IN
       sessions' =
         IF f.kind = "start"
         THEN SessionStore_create(sessions, generate_session_id(sessions),
                  SessionData(chat.metadata, model_name(chat.model), chat.gem))
         ELSE SessionStore_update_metadata(sessions, f.session_id[1],
                                           chat.metadata)
    /\ req' = [req EXCEPT ![r] = TurnRaises(@, Exc("HTTPError"))]
    /\ UNCHANGED <<tasks, pc, loc, wh, obs, cfg, held, clock, locks>>

\* _serialize_images raises: a produced image cannot be fetched
SerializeRaises(r) ==
    /\ req[r].pc = "serialize"
    /\ req' = [req EXCEPT ![r] = TurnRaises(@, Exc("HTTPError"))]
    /\ UNCHANGED <<tasks, sessions, pc, loc, wh, obs, cfg, held, clock, locks>>

\* the request is answered; its slot serves the next request
RequestEnds(r) ==
    /\ req[r].pc = "done"
    /\ req' = [req EXCEPT ![r] = IdleReq]
    /\ UNCHANGED <<tasks, sessions, pc, loc, wh, obs, cfg, held, clock, locks>>

----------------------------------------------------------------------------
(* The synchronous endpoints: POST /sessions, POST /sessions/{id}/messages *)

\* the engine failures an endpoint answers with 502
EngineFailures ==
    {"APIError", "ImageGenerationError", "TimeoutError", "UsageLimitExceeded",
     "TemporarilyBlocked", "ModelInvalid"}

\* failures of chat.send_message, one of them none the endpoints name
ApiEngineExceptions == {"UsageLimitExceeded", "APIError", "RuntimeError"}

HTTPResponse(status_code, body, detail) ==
    [status_code |-> status_code, body |-> body, detail |-> detail]

\* an endpoint that answers a failed image fetch as a success
start_session_endpoint_Lenient(ret, exc) ==
    IF IsPresent(ret) THEN HTTPResponse(201, ret, "")
    ELSE CASE exc[1].type = "InvalidModelError" ->
                HTTPResponse(400, None, "Invalid model")
           [] exc[1].type = "HTTPError" -> HTTPResponse(201, None, "")
           [] exc[1].type \in EngineFailures ->
                HTTPResponse(502, None, exc[1].type)
           [] exc[1].type = "ValueError" -> HTTPResponse(400, None, exc[1].type)
           [] OTHER -> HTTPResponse(500, None, "Internal Server Error")

\* POST /sessions around service.start_session; ValueError goes to the
\* application's handler, anything else unnamed to the server's 500
start_session_endpoint(ret, exc) ==
    IF IsPresent(ret) THEN HTTPResponse(201, ret, "")
    ELSE CASE exc[1].type = "InvalidModelError" ->
                HTTPResponse(400, None, "Invalid model")
           [] exc[1].type = "HTTPError" ->
                HTTPResponse(400, None, "Failed to fetch image")
           [] exc[1].type \in EngineFailures ->
                HTTPResponse(502, None, exc[1].type)
           [] exc[1].type = "ValueError" -> HTTPResponse(400, None, exc[1].type)
           [] OTHER -> HTTPResponse(500, None, "Internal Server Error")

\* POST /sessions/{session_id}/messages around service.continue_session
continue_session_endpoint(ret, exc) ==
    IF IsPresent(ret) THEN HTTPResponse(200, ret, "")
    ELSE CASE exc[1].type = "SessionNotFoundError" ->
                HTTPResponse(404, None, "Session not found")
           [] exc[1].type = "HTTPError" ->
                HTTPResponse(400, None, "Failed to fetch image")
           [] exc[1].type \in EngineFailures ->
                HTTPResponse(502, None, exc[1].type)
           [] exc[1].type \in {"ValueError", "InvalidModelError"} ->
                HTTPResponse(400, None, exc[1].type)
           [] OTHER -> HTTPResponse(500, None, "Internal Server Error")

\* the endpoint answers the caller with what the service returned or raised
EndpointAnswers(r) ==
    /\ req[r].pc = "done"
    /\ held' = [held EXCEPT ![r] =
                  IF req[r].kind = "start"
                  THEN [op |-> "POST /sessions", id |-> None,
                        response |-> start_session_endpoint(req[r].ret,
                                                            req[r].exc)]
                  ELSE [op |-> "POST /sessions/{session_id}/messages",
                        id |-> req[r].session_id,
                        response |-> continue_session_endpoint(req[r].ret,
                                                               req[r].exc)]]
    /\ req' = [req EXCEPT ![r] = IdleReq]
    /\ UNCHANGED <<tasks, sessions, pc, loc, wh, obs, cfg, clock, locks>>

----------------------------------------------------------------------------
(* Callers of the two stores *)

\* continuation metadata callers store
ClientMetadata ==
    { <<<<"cid1">>, <<"rid1">>, <<"rcid1">>>>,
      <<<<"cid2">>, <<"rid2">>, <<"rcid2">>>> }

ClientStatuses == {"processing", "failed"}

\* what a caller holds once a store operation has returned or raised
ClientReturn(op, id, value) ==
    Some([op |-> op, id |-> id, raised |-> None, value |-> value])

ClientRaise(op, id, exc) ==
    Some([op |-> op, id |-> id, raised |-> Some(exc), value |-> None])

\* await store.create(session_id, data); the caller keeps the data it passed
SessionStoreCreate(c, session_id, metadata) ==
    /\ sessions' = SessionStore_create(sessions, session_id,
                       SessionData(metadata, "unspecified", None))
    /\ held' = [held EXCEPT ![c] =
                  ClientReturn("SessionStore.create", session_id,
                      Some([data |-> SessionData(metadata, "unspecified", None)]))]
    /\ Locked("session", c)
    /\ UNCHANGED <<tasks, pc, loc, wh, obs, req, cfg, clock>>

\* await store.get(session_id)
SessionStoreGet(c, session_id) ==
    /\ held' = [held EXCEPT ![c] =
                  IF SessionStore_missing(sessions, session_id)
                  THEN ClientRaise("SessionStore.get", session_id,
                                   SessionNotFoundError(session_id))
                  ELSE ClientReturn("SessionStore.get", session_id,
                           Some(SessionStore_get(sessions, session_id)))]
    /\ Locked("session", c)
    /\ UNCHANGED <<tasks, sessions, pc, loc, wh, obs, req, cfg, clock>>

\* an update that creates the entry it does not find
SessionStoreUpdateMetadata_Upsert(c, session_id, metadata) ==
    /\ sessions' = SessionStore_create(sessions, session_id,
                       SessionData(metadata, "unspecified", None))
    /\ held' = [held EXCEPT ![c] =
                  ClientReturn("SessionStore.update_metadata", session_id,
                               Some([metadata |-> metadata]))]
    /\ Locked("session", c)
    /\ UNCHANGED <<tasks, pc, loc, wh, obs, req, cfg, clock>>

\* await store.update_metadata(session_id, metadata); the caller keeps the
\* metadata it passed
SessionStoreUpdateMetadata(c, session_id, metadata) ==
    /\ IF SessionStore_missing(sessions, session_id)
       THEN /\ sessions' = sessions
            /\ held' = [held EXCEPT ![c] =
                          ClientRaise("SessionStore.update_metadata", session_id,
                                      SessionNotFoundError(session_id))]
       ELSE /\ sessions' = SessionStore_update_metadata(sessions, session_id,
                                                        metadata)
            /\ held' = [held EXCEPT ![c] =
                          ClientReturn("SessionStore.update_metadata",
                                       session_id,
                                       Some([metadata |-> metadata]))]
    /\ Locked("session", c)
    /\ UNCHANGED <<tasks, pc, loc, wh, obs, req, cfg, clock>>

\* await task_store.create(task_id, task_data)
TaskStoreCreate(c, task_id) ==
    /\ tasks' = TaskStore_create(tasks, task_id,
                    TaskData([prompt |-> "edit", model |-> None],
                             "https://example.com/webhook"))
    /\ held' = [held EXCEPT ![c] = ClientReturn("TaskStore.create", task_id, None)]
    /\ Locked("task", c)
    /\ UNCHANGED <<sessions, pc, loc, wh, obs, req, cfg, clock>>

\* await task_store.get(task_id)
TaskStoreGet(c, task_id) ==
    /\ held' = [held EXCEPT ![c] =
                  IF TaskStore_missing(tasks, task_id)
                  THEN ClientRaise("TaskStore.get", task_id,
                                   TaskNotFoundError(task_id))
                  ELSE ClientReturn("TaskStore.get", task_id,
                           Some([data |-> TaskStore_get(tasks, task_id),
                                 aliases |-> {}]))]
    /\ Locked("task", c)
    /\ UNCHANGED <<tasks, sessions, pc, loc, wh, obs, req, cfg, clock>>

\* await task_store.update_status(task_id, status)
TaskStoreUpdateStatus(c, task_id, status) ==
    /\ IF TaskStore_missing(tasks, task_id)
       THEN /\ tasks' = tasks
            /\ held' = [held EXCEPT ![c] =
                          ClientRaise("TaskStore.update_status", task_id,
                                      TaskNotFoundError(task_id))]
       ELSE /\ tasks' = TaskStore_update_status(tasks, task_id, status, None,
                                                None)
            /\ held' = [held EXCEPT ![c] =
                          ClientReturn("TaskStore.update_status", task_id, None)]
    /\ Locked("task", c)
    /\ UNCHANGED <<sessions, pc, loc, wh, obs, req, cfg, clock>>

Mutations == {"metadata[0] = x", "model = x"}

\* the caller's value after the caller changes it
Mutated(value, mutation) ==
    CASE mutation = "metadata[0] = x" ->
           [value EXCEPT !.metadata =
              IF @ = <<>> THEN @ ELSE [@ EXCEPT ![1] = Some("x")]]
      [] mutation = "model = x" -> [value EXCEPT !.model = "x"]

\* the objects a change goes through: the list, or the SessionData itself
Touches(mutation) ==
    IF mutation = "model = x" THEN {"data"} ELSE {"data", "metadata"}

\* a caller changes, in place, the SessionData a get returned
ClientMutates(c, mutation) ==
    /\ held[c] # None
    /\ held[c][1].op = "SessionStore.get"
    /\ held[c][1].value # None
    /\ LET got == held[c][1].value[1]
           changed == [got EXCEPT !.data = Mutated(@, mutation)] IN
       /\ held' = [held EXCEPT ![c] =
                     ClientReturn("SessionStore.get", got.session_id,
                                  Some(changed))]
       /\ sessions' =
            IF /\ got.aliases \cap Touches(mutation) # {}
               /\ ~ SessionStore_missing(sessions, got.session_id)
            THEN [sessions EXCEPT ![got.session_id] = Mutated(@, mutation)]
            ELSE sessions
    /\ UNCHANGED <<tasks, pc, loc, wh, obs, req, cfg, clock, locks>>

\* largest reading of the clock
MaxClock == 2

\* time passes between two operations
Tick ==
    /\ clock < MaxClock
    /\ clock' = clock + 1
    /\ UNCHANGED <<tasks, sessions, pc, loc, wh, obs, req, cfg, held, locks>>

----------------------------------------------------------------------------
(* Specifications *)

EmptyStore == [k \in {} |-> None]

Init ==
    /\ tasks = EmptyStore
    /\ sessions = EmptyStore
    /\ pc = [t \in TaskIds |-> "none"]
    /\ loc = [t \in TaskIds |-> IdleLocals]
    /\ wh = [t \in TaskIds |-> IdleFrame]
    /\ obs = [t \in TaskIds |-> IdleObs]
    /\ req = [r \in ReqIds |-> IdleReq]
    /\ cfg = DefaultConfig
    /\ held = [c \in ReqIds |-> None]
    /\ clock = 0
    /\ locks = FreeLocks

Notifier ==
    \E t \in TaskIds :
        \/ \E status_code \in StatusCodes : WebhookPostResponse(t, status_code)
        \/ WebhookPostException(t)
        \/ WebhookSleep(t)

Next ==
    \/ \E t \in TaskIds, model \in ModelNames : start_session_async(t, model)
    \/ \E t \in TaskIds : RunnerBegin(t)
    \/ \E t \in TaskIds : RunnerInvalidModel(t)
    \/ \E t \in TaskIds, exc \in TurnExceptions : RunnerTurnRaises(t, exc)
    \/ \E t \in TaskIds, output \in EngineOutputs : RunnerTurnReturns(t, output)
    \/ \E t \in TaskIds : RunnerComplete(t)
    \/ \E t \in TaskIds : RunnerNotifyCompleted(t)
    \/ \E t \in TaskIds : RunnerDumpRaises(t)
    \/ \E t \in TaskIds : RunnerExcept(t)
    \/ \E t \in TaskIds : RunnerReturn(t)
    \/ Notifier

Spec == Init /\ [][Next]_vars

\* the event loop runs every unit of work that is ready, and every network
\* call (engine invocation, webhook POST, backoff sleep) returns or fails
RunnerStep(t) ==
    \/ RunnerBegin(t)
    \/ RunnerInvalidModel(t)
    \/ \E exc \in TurnExceptions : RunnerTurnRaises(t, exc)
    \/ \E output \in EngineOutputs : RunnerTurnReturns(t, output)
    \/ RunnerComplete(t)
    \/ RunnerNotifyCompleted(t)
    \/ RunnerDumpRaises(t)
    \/ RunnerExcept(t)
    \/ RunnerReturn(t)

NotifierStep(t) ==
    \/ \E status_code \in StatusCodes : WebhookPostResponse(t, status_code)
    \/ WebhookPostException(t)
    \/ WebhookSleep(t)

Fairness ==
    \A t \in TaskIds : WF_vars(RunnerStep(t)) /\ WF_vars(NotifierStep(t))

SpecLive == Init /\ [][Next]_vars /\ Fairness

\* call_webhook called directly, with every max_retries up to MaxRetries
DirectPayload(t) == FailedPayload(t, Str("HTTPError"))

InitWebhook ==
    /\ tasks = EmptyStore
    /\ sessions = EmptyStore
    /\ pc = [t \in TaskIds |-> "none"]
    /\ loc = [t \in TaskIds |-> IdleLocals]
    /\ \E m \in [TaskIds -> 0 .. MaxRetries] :
          wh = [t \in TaskIds |-> call_webhook(DirectPayload(t), m[t])]
    /\ obs = [t \in TaskIds |-> [IdleObs EXCEPT !.calls = 1]]
    /\ req = [r \in ReqIds |-> IdleReq]
    /\ cfg = DefaultConfig
    /\ held = [c \in ReqIds |-> None]
    /\ clock = 0
    /\ locks = FreeLocks

NextWebhook == Notifier

SpecWebhook == InitWebhook /\ [][NextWebhook]_vars

RunnerIdle ==
    /\ tasks = EmptyStore
    /\ pc = [t \in TaskIds |-> "none"]
    /\ loc = [t \in TaskIds |-> IdleLocals]
    /\ wh = [t \in TaskIds |-> IdleFrame]
    /\ obs = [t \in TaskIds |-> IdleObs]

\* synchronous turns of two concurrent requests on one service
InitService ==
    /\ RunnerIdle
    /\ sessions = EmptyStore
    /\ req = [r \in ReqIds |-> IdleReq]
    /\ cfg = DefaultConfig
    /\ held = [c \in ReqIds |-> None]
    /\ clock = 0
    /\ locks = FreeLocks

NextService ==
    \/ \E r \in ReqIds, prompt \in Prompts, urls \in TurnUrlLists,
          model \in ModelNames : ServiceStartSession(r, prompt, urls, model)
    \/ \E r \in ReqIds, session_id \in SessionIds, prompt \in Prompts,
          urls \in TurnUrlLists :
             ServiceContinueSession(r, session_id, prompt, urls)
    \/ \E r \in ReqIds, i \in 1 .. MaxUrls : DownloadOk(r, i)
    \/ \E r \in ReqIds, i \in 1 .. MaxUrls : DownloadFail(r, i)
    \/ \E r \in ReqIds, output \in TurnOutputs : EngineReturns(r, output)
    \/ \E r \in ReqIds, exc \in EngineExceptions : EngineRaises(r, exc)
    \/ \E r \in ReqIds : SerializeReturns(r)
    \/ \E r \in ReqIds : SerializeRaises(r)
    \/ \E r \in ReqIds : RequestEnds(r)

SpecService == InitService /\ [][NextService]_vars

\* one input fetch, for every list of up to MaxUrls URLs
InitFetch ==
    /\ RunnerIdle
    /\ sessions = EmptyStore
    /\ \E urls \in UrlLists :
          req = [r \in ReqIds |->
                   IF r = "r1"
                   THEN files_from_urls(
                          [IdleReq EXCEPT !.kind = "start",
                                          !.chat = Some(start_chat(None, None, None))],
                          urls)
                   ELSE IdleReq]
    /\ cfg = DefaultConfig
    /\ held = [c \in ReqIds |-> None]
    /\ clock = 0
    /\ locks = FreeLocks

NextFetch ==
    \/ \E r \in ReqIds, i \in 1 .. MaxUrls : DownloadOk(r, i)
    \/ \E r \in ReqIds, i \in 1 .. MaxUrls : DownloadFail(r, i)

SpecFetch == InitFetch /\ [][NextFetch]_vars

\* base URLs a service is built with: none, "", "https://cdn",
\* "https://cdn/", "https://cdn//", "/", "https://cdn/img/"
BaseUrls ==
    { None,
      Some(<<>>),
      Some(<<"https:", "/", "/", "cdn">>),
      Some(<<"https:", "/", "/", "cdn", "/">>),
      Some(<<"https:", "/", "/", "cdn", "/", "/">>),
      Some(<<"/">>),
      Some(<<"https:", "/", "/", "cdn", "/", "img", "/">>) }

\* output directories: /data/outputs, outputs, /tmp/out
OutputDirs ==
    { [absolute |-> TRUE, segs |-> <<"data", "outputs">>],
      [absolute |-> FALSE, segs |-> <<"outputs">>],
      [absolute |-> TRUE, segs |-> <<"tmp", "out">>] }

\* most images one turn produces
MaxImages == 2

ProducedImages ==
    UNION { [1 .. n -> { [title |-> "Generated", file |-> "20260101_ab12cd34.png"],
                         [title |-> "Web", file |-> "20260101_ef56ab78.bin"] }]
            : n \in 1 .. MaxImages }

ImageOutputs ==
    { [text |-> "Second", metadata |-> <<<<"cid2">>, <<"rid2">>, <<"rcid2">>>>,
       images |-> images] : images \in ProducedImages }

\* one turn at the engine, for every configuration of the service
InitUrl ==
    /\ RunnerIdle
    /\ sessions = EmptyStore
    /\ req = [r \in ReqIds |->
                IF r = "r1"
                THEN files_from_urls(
                       [IdleReq EXCEPT !.kind = "start",
                                       !.chat = Some(start_chat(None, None, None))],
                       <<>>)
                ELSE IdleReq]
    /\ \E output_dir \in OutputDirs, base_url \in BaseUrls :
          cfg = [output_dir |-> output_dir, base_url |-> base_url]
    /\ held = [c \in ReqIds |-> None]
    /\ clock = 0
    /\ locks = FreeLocks

NextUrl ==
    \/ \E r \in ReqIds, output \in ImageOutputs : EngineReturns(r, output)
    \/ \E r \in ReqIds, exc \in EngineExceptions : EngineRaises(r, exc)
    \/ \E r \in ReqIds : SerializeReturns(r)
    \/ \E r \in ReqIds : SerializeRaises(r)

SpecUrl == InitUrl /\ [][NextUrl]_vars

\* one caller of the two synchronous endpoints; the prompt has passed the
\* request model's min_length
NextApi ==
    \/ \E urls \in TurnUrlLists, model \in ModelNames :
          ServiceStartSession("r1", "edit", urls, model)
    \/ \E session_id \in SessionIds, urls \in TurnUrlLists :
          ServiceContinueSession("r1", session_id, "edit", urls)
    \/ \E i \in 1 .. MaxUrls : DownloadOk("r1", i)
    \/ \E i \in 1 .. MaxUrls : DownloadFail("r1", i)
    \/ \E output \in TurnOutputs : EngineReturns("r1", output)
    \/ \E exc \in ApiEngineExceptions : EngineRaises("r1", exc)
    \/ SerializeReturns("r1")
    \/ SerializeRaises("r1")
    \/ EndpointAnswers("r1")

SpecApi == InitService /\ [][NextApi]_vars

\* one caller of the Session Store while time passes
NextTime ==
    \/ Tick
    \/ \E session_id \in SessionIds, metadata \in ClientMetadata :
          SessionStoreCreate("r1", session_id, metadata)
    \/ \E session_id \in SessionIds : SessionStoreGet("r1", session_id)
    \/ \E session_id \in SessionIds, metadata \in ClientMetadata :
          SessionStoreUpdateMetadata("r1", session_id, metadata)

SpecTime == InitService /\ [][NextTime]_vars

\* one task and its runner beside one caller continuing the session the
\* task's turn creates
NextLock ==
    \/ \E model \in ModelNames : start_session_async("t1", model)
    \/ RunnerStep("t1")
    \/ NotifierStep("t1")
    \/ \E urls \in TurnUrlLists :
          ServiceContinueSession("r1", "s1", "edit", urls)
    \/ \E i \in 1 .. MaxUrls : DownloadOk("r1", i)
    \/ \E i \in 1 .. MaxUrls : DownloadFail("r1", i)
    \/ \E output \in TurnOutputs : EngineReturns("r1", output)
    \/ \E exc \in EngineExceptions : EngineRaises("r1", exc)
    \/ SerializeReturns("r1")
    \/ SerializeRaises("r1")
    \/ RequestEnds("r1")

SpecLock == Init /\ [][NextLock]_vars

\* two callers of the stores, and the service continuing one session
NextStore ==
    \/ \E c \in ReqIds, session_id \in SessionIds, metadata \in ClientMetadata :
          SessionStoreCreate(c, session_id, metadata)
    \/ \E c \in ReqIds, session_id \in SessionIds : SessionStoreGet(c, session_id)
    \/ \E c \in ReqIds, session_id \in SessionIds, metadata \in ClientMetadata :
          SessionStoreUpdateMetadata(c, session_id, metadata)
    \/ TaskStoreCreate("r2", "t1")
    \/ TaskStoreGet("r2", "t1")
    \/ \E status \in ClientStatuses : TaskStoreUpdateStatus("r2", "t1", status)
    \/ \E mutation \in Mutations : ClientMutates("r1", mutation)
    \/ ServiceContinueSession("r1", "s1", "edit", <<>>)
    \/ \E output \in {o \in TurnOutputs : o.images = <<>>} :
          EngineReturns("r1", output)
    \/ \E exc \in EngineExceptions : EngineRaises("r1", exc)
    \/ RequestEnds("r1")

SpecStore == InitService /\ [][NextStore]_vars

----------------------------------------------------------------------------
(* Properties of the Task Runner, checked under Spec *)

Status(t) == tasks[t].status

Rank(status) ==
    CASE status = "pending" -> 0
      [] status = "processing" -> 1
      [] OTHER -> 2

\* C1: once a task's stored status is 'completed' or 'failed', no later
\* write changes it to a different value, under every outcome of the unit
\* of work, a failure raised after 'completed' was written included.
C1_TerminalStatusIsFinal ==
    [][\A t \in TaskIds :
        (t \in DOMAIN tasks /\ Status(t) \in TerminalStatuses)
            => (t \in DOMAIN tasks' /\ tasks'[t].status = Status(t))]_vars

\* C2: process_task_and_notify hands a payload to call_webhook exactly once
\* per task: never twice at any moment, and once the notifier was entered or
\* the unit of work has ended, exactly once.
C2_NotifiedExactlyOnce ==
    \A t \in TaskIds :
        /\ obs[t].calls <= 1
        /\ pc[t] \in {"call_webhook", "done", "escaped"} => obs[t].calls = 1
        /\ pc[t] \in {"none", "spawned", "start_session", "update_completed",
                      "build_payload", "except"} => obs[t].calls = 0

C2_Witness ==
    \E t \in TaskIds :
        /\ pc[t] = "done"
        /\ loc[t].exc = Some("AttributeError")
        /\ obs[t].calls = 1

\* C3: a task is stored 'pending' at creation, is 'processing' whenever the
\* engine is about to be invoked, takes a terminal status only from
\* 'processing' (or from a terminal status), and never moves backwards.
C3_StatusOrdered ==
    [][\A t \in TaskIds :
        /\ (t \notin DOMAIN tasks /\ t \in DOMAIN tasks')
              => tasks'[t].status = "pending"
        /\ t \in DOMAIN tasks =>
              /\ t \in DOMAIN tasks'
              /\ Rank(tasks'[t].status) >= Rank(Status(t))
              /\ Rank(tasks'[t].status) <= Rank(Status(t)) + 1
        /\ pc'[t] = "start_session" => tasks'[t].status = "processing"
        /\ pc'[t] \in {"none", "spawned"} /\ t \in DOMAIN tasks'
              => tasks'[t].status = "pending"]_vars

C3_Witness ==
    \E t \in TaskIds :
        /\ pc[t] = "done"
        /\ Status(t) = "completed"
        /\ wh[t].ret = Some(TRUE)

\* C4: for every stored task, result is present iff status is 'completed'
\* and error is present iff status is 'failed'.
C4_ResultIffCompleted ==
    \A t \in DOMAIN tasks :
        /\ IsPresent(tasks[t].result) <=> Status(t) = "completed"
        /\ IsPresent(tasks[t].error) <=> Status(t) = "failed"

\* C5: every exception raised while a task is processed is caught by an
\* except clause and turned into a 'failed' task carrying a non-empty error
\* message that ends with the exception's text; none escapes the runner.
C5_FailuresBecomeFailedTasks ==
    \A t \in TaskIds :
        /\ pc[t] # "escaped"
        /\ (IsPresent(loc[t].exc) /\ pc[t] \in {"call_webhook", "done"}) =>
              /\ Status(t) = "failed"
              /\ IsPresent(tasks[t].error)
              /\ Len(tasks[t].error[1]) >= 1
              /\ tasks[t].error[1][Len(tasks[t].error[1])] = loc[t].exc[1]

C5_Witness ==
    \E t \in TaskIds :
        /\ pc[t] = "done"
        /\ loc[t].exc = Some("RuntimeError")
        /\ Status(t) = "failed"
        /\ tasks[t].error = Some(<<"Unexpected error: ", "RuntimeError">>)

\* C6: the payload handed to the notifier agrees with the Task Store at and
\* after notification: same task id, a terminal status equal to the stored
\* one, a completed payload with the stored result and no error, a failed
\* payload with the stored error message and no result.
C6_PayloadAgreesWithStore ==
    \A t \in TaskIds :
        (pc[t] \in {"call_webhook", "done"} /\ IsPresent(wh[t].payload)) =>
            LET payload == wh[t].payload[1]
                task == tasks[t] IN
            /\ payload.task_id = t
            /\ payload.status \in TerminalStatuses
            /\ payload.status = task.status
            /\ payload.status = "completed" =>
                  /\ IsPresent(payload.result) /\ IsPresent(task.result)
                  /\ payload.result[1].session_id = task.result[1].session_id
                  /\ payload.result[1].text = task.result[1].text
                  /\ payload.result[1].metadata = task.result[1].metadata
                  /\ payload.result[1].images = task.result[1].images
                  /\ payload.error = None
            /\ payload.status = "failed" =>
                  /\ IsPresent(payload.error)
                  /\ payload.error = task.error
                  /\ payload.result = None

C6_Witness ==
    \E t \in TaskIds :
        /\ pc[t] = "done"
        /\ wh[t].payload[1].status = "failed"
        /\ wh[t].payload[1].error = Some(<<"UsageLimitExceeded">>)
        /\ Status(t) = "failed"

\* C11: no webhook POST is attempted, and call_webhook is not even entered,
\* while the task's stored status is 'pending' or 'processing': the terminal
\* status is in the Task Store before the first attempt.
C11_TerminalBeforeNotification ==
    [][\A t \in TaskIds :
        /\ obs'[t].posts > obs[t].posts =>
              /\ t \in DOMAIN tasks
              /\ Status(t) \in TerminalStatuses
        /\ wh'[t].pc # "idle" =>
              /\ t \in DOMAIN tasks'
              /\ tasks'[t].status \in TerminalStatuses]_vars

C11_Witness ==
    \E t \in TaskIds :
        /\ pc[t] = "call_webhook"
        /\ obs[t].posts >= 1
        /\ Status(t) = "completed"

\* C12: while call_webhook runs and when it returns, whatever it returns,
\* the task's stored status, result and error keep the values they had
\* before notification; a completed task whose webhook is not delivered
\* stays completed.
C12_NotificationLeavesStore ==
    [][\A t \in TaskIds :
        /\ pc[t] = "call_webhook" =>
              /\ t \in DOMAIN tasks'
              /\ tasks'[t] = tasks[t]
        /\ (pc'[t] = "done" /\ wh'[t].payload[1].status = "completed") =>
              tasks'[t].status = "completed"]_vars

C12_Witness ==
    \E t \in TaskIds :
        /\ pc[t] = "done"
        /\ wh[t].ret = Some(FALSE)
        /\ obs[t].posts = WEBHOOK_RETRY_ATTEMPTS
        /\ Status(t) = "completed"

\* C13: the task is registered as pending before its runner exists and the
\* submitter is answered (202, task id, 'pending'); from then on, whatever
\* the runner has done, a get of that id answers 200 with a status among
\* pending, processing, completed, failed.
C13_SubmittedTaskIsRetrievable ==
    \A t \in TaskIds :
        /\ pc[t] # "none" => t \in DOMAIN tasks
        /\ pc[t] # "none" <=> IsPresent(obs[t].response)
        /\ IsPresent(obs[t].response) =>
              /\ obs[t].response[1].status_code = 202
              /\ obs[t].response[1].task_id = t
              /\ obs[t].response[1].status = "pending"
              /\ get_task_status(tasks, t).status_code = 200
              /\ get_task_status(tasks, t).task_id = t
              /\ get_task_status(tasks, t).status \in
                    {"pending", "processing", "completed", "failed"}

C13_Witness ==
    \E t, u \in TaskIds :
        /\ pc[t] = "spawned"
        /\ IsPresent(obs[t].response)
        /\ get_task_status(tasks, t).status = "pending"
        /\ pc[u] = "done"
        /\ get_task_status(tasks, u).status = "failed"

----------------------------------------------------------------------------
(* Properties of call_webhook, checked under SpecWebhook *)

Returned(t) == wh[t].pc = "done"

\* C7: against an endpoint that fails on every attempt call_webhook makes
\* exactly max_retries POSTs and returns False; it never makes more than
\* max_retries POSTs.
C7_ExactlyMaxAttempts ==
    \A t \in TaskIds :
        /\ obs[t].posts <= wh[t].max_retries
        /\ (Returned(t) /\ ~ obs[t].okSeen) =>
              /\ obs[t].posts = wh[t].max_retries
              /\ wh[t].ret = Some(FALSE)

C7_Witness ==
    \E t \in TaskIds :
        /\ Returned(t)
        /\ ~ obs[t].okSeen
        /\ wh[t].max_retries >= 3
        /\ obs[t].posts = wh[t].max_retries

\* C8: the i-th sleep lasts base * 2^(i-1) seconds (2, 4, ...), each delay
\* doubles the one before, one sleep follows each failed attempt but the
\* last, and none follows the last attempt or a successful one.
C8_BackoffSchedule ==
    \A t \in TaskIds :
        LET sleeps == obs[t].sleeps
            n == Len(sleeps) IN
        /\ \A i \in 1 .. n : sleeps[i] = WEBHOOK_RETRY_DELAY_SECONDS * Pow(2, i - 1)
        /\ \A i \in 1 .. n - 1 : sleeps[i + 1] = 2 * sleeps[i]
        /\ n >= 1 => sleeps[1] = 2
        /\ n >= 2 => sleeps[2] = 4
        /\ n >= 1 => n <= wh[t].max_retries - 1
        /\ wh[t].pc = "post" => n = obs[t].posts
        /\ wh[t].pc = "sleep" => n = obs[t].posts - 1
        /\ (Returned(t) /\ obs[t].posts >= 1) => n = obs[t].posts - 1

C8_Witness ==
    \E t \in TaskIds :
        /\ Returned(t)
        /\ wh[t].max_retries = 3
        /\ wh[t].ret = Some(FALSE)
        /\ obs[t].sleeps = <<2, 4>>

\* C9: once an attempt was answered with a status code below 400 the call
\* has returned True and no further POST or sleep happens; a first-attempt
\* success is exactly one POST and no sleep.
C9_SuccessReturnsAtOnce ==
    [][\A t \in TaskIds :
        /\ obs'[t].okSeen =>
              /\ wh'[t].pc = "done"
              /\ wh'[t].ret = Some(TRUE)
        /\ obs[t].okSeen =>
              /\ obs'[t].posts = obs[t].posts
              /\ obs'[t].sleeps = obs[t].sleeps
        /\ (obs'[t].okSeen /\ wh'[t].attempt = 0) =>
              /\ obs'[t].posts = 1
              /\ obs'[t].sleeps = <<>>]_vars

C9_Witness ==
    \E t \in TaskIds :
        /\ obs[t].okSeen
        /\ obs[t].posts = 1
        /\ obs[t].sleeps = <<>>
        /\ wh[t].ret = Some(TRUE)
        /\ wh[t].max_retries >= 2

\* C10: call_webhook returns True iff one of its attempts was answered with
\* a status code below 400; it has no return value before it returned, and
\* a status code of 400 or more or a transport exception never yields True.
C10_TrueIffSuccessSeen ==
    \A t \in TaskIds :
        /\ Returned(t) => wh[t].ret \in {Some(TRUE), Some(FALSE)}
        /\ Returned(t) => (wh[t].ret = Some(TRUE) <=> obs[t].okSeen)
        /\ ~ Returned(t) => wh[t].ret = None /\ ~ obs[t].okSeen

C10_Witness ==
    \E t \in TaskIds :
        /\ Returned(t)
        /\ wh[t].ret = Some(TRUE)
        /\ obs[t].posts >= 2

----------------------------------------------------------------------------
(* Properties of the stores under SpecStore *)

\* c's store operation ends in this step
Ends(c) == held'[c] # held[c] /\ held'[c] # None

\* C14: get, update_metadata and update_status on an id that was never
\* created fail with the store's NotFound error carrying that id and leave
\* the store as it was; continue_session on an unknown session fails with
\* SessionNotFoundError before the engine is invoked.
C14_UnknownIdFailsNotFound ==
    [][ /\ \A c \in ReqIds :
             Ends(c) =>
               LET call == held'[c][1] IN
               /\ ( /\ call.op \in {"SessionStore.get",
                                    "SessionStore.update_metadata"}
                    /\ SessionStore_missing(sessions, call.id) )
                    => /\ call.raised = Some(SessionNotFoundError(call.id))
                       /\ call.value = None
                       /\ sessions' = sessions
               /\ ( /\ call.op \in {"TaskStore.get", "TaskStore.update_status"}
                    /\ TaskStore_missing(tasks, call.id) )
                    => /\ call.raised = Some(TaskNotFoundError(call.id))
                       /\ call.value = None
                       /\ tasks' = tasks
        /\ \A r \in ReqIds :
             ( /\ req[r].pc = "idle"
               /\ req'[r].kind = "continue"
               /\ SessionStore_missing(sessions, req'[r].session_id[1]) )
               => /\ req'[r].pc = "done"
                  /\ req'[r].exc =
                       Some(SessionNotFoundError(req'[r].session_id[1]))
                  /\ req'[r].ret = None
                  /\ req'[r].engine_calls = 0
                  /\ sessions' = sessions
      ]_vars

C14_Witness ==
    /\ held["r1"] = ClientRaise("SessionStore.update_metadata", "s2",
                                SessionNotFoundError("s2"))
    /\ held["r2"] = ClientRaise("TaskStore.update_status", "t1",
                                TaskNotFoundError("t1"))
    /\ req["r1"].exc = Some(SessionNotFoundError("s1"))
    /\ req["r1"].engine_calls = 0
    /\ sessions = EmptyStore
    /\ tasks = EmptyStore

\* C15: whatever a caller does to a value a get returned, every later get
\* returns what it would have returned without that change.
C15_GetReturnsIndependentCopy ==
    [][ \A c \in ReqIds :
          ( /\ held[c] # None
            /\ held[c][1].op = "SessionStore.get"
            /\ held[c][1].value # None
            /\ Ends(c)
            /\ held'[c][1].op = "SessionStore.get" )
            => \A session_id \in DOMAIN sessions :
                 /\ ~ SessionStore_missing(sessions', session_id)
                 /\ SessionStore_get(sessions', session_id) =
                      SessionStore_get(sessions, session_id)
      ]_vars

C15_Witness ==
    /\ held["r1"] # None
    /\ held["r1"][1].op = "SessionStore.get"
    /\ held["r1"][1].id = "s1"
    /\ held["r1"][1].value # None
    /\ held["r1"][1].value[1].data.metadata[1] = Some("x")
    /\ held["r1"][1].value[1].data.model = "x"
    /\ held["r2"] # None
    /\ held["r2"][1].op = "SessionStore.get"
    /\ held["r2"][1].id = "s1"
    /\ held["r2"][1].value # None
    /\ held["r2"][1].value[1].data = sessions["s1"]
    /\ sessions["s1"].metadata[1] = Some("cid1")

\* C17: creates on distinct ids, in any interleaving with each other and
\* with other store operations, never drop an entry: a step removes no id,
\* changes at most one entry, and a create leaves its id holding the data
\* it was given.
C17_CreatesNeverDropAnEntry ==
    [][ /\ DOMAIN sessions \subseteq DOMAIN sessions'
        /\ Cardinality({ session_id \in DOMAIN sessions' :
                           \/ SessionStore_missing(sessions, session_id)
                           \/ sessions'[session_id] # sessions[session_id] }) <= 1
        /\ \A c \in ReqIds :
             (Ends(c) /\ held'[c][1].op = "SessionStore.create")
               => /\ ~ SessionStore_missing(sessions', held'[c][1].id)
                  /\ sessions'[held'[c][1].id] = held'[c][1].value[1].data
      ]_vars

C17_Witness ==
    /\ held["r1"] = ClientReturn("SessionStore.create", "s1",
                      Some([data |-> SessionData(<<<<"cid1">>, <<"rid1">>, <<"rcid1">>>>,
                                                 "unspecified", None)]))
    /\ held["r2"] = ClientReturn("SessionStore.create", "s2",
                      Some([data |-> SessionData(<<<<"cid2">>, <<"rid2">>, <<"rcid2">>>>,
                                                 "unspecified", None)]))
    /\ DOMAIN sessions = {"s1", "s2"}
    /\ sessions["s1"] = held["r1"][1].value[1].data
    /\ sessions["s2"] = held["r2"][1].value[1].data

----------------------------------------------------------------------------
(* Properties of the synchronous turn under SpecService *)

\* r's turn returns a response in this step
TurnReturns(r) ==
    req[r].pc \notin {"idle", "done"} /\ req'[r].pc = "done" /\ req'[r].ret # None

\* C16: when start_session returns session id s, get(s) gives the
\* continuation metadata that turn produced; when continue_session(s)
\* returns, get(s) gives exactly the metadata of that turn, nothing of the
\* metadata stored before, and the response carries s.
C16_StoredMetadataIsLatestTurn ==
    [][ \A r \in ReqIds :
          TurnReturns(r) =>
            LET s == req'[r].ret[1].session_id
                produced == req'[r].output[1].metadata IN
            /\ ~ SessionStore_missing(sessions', s)
            /\ SessionStore_get(sessions', s).data.metadata = produced
            /\ req'[r].ret[1].metadata = produced
            /\ req'[r].kind = "start" => SessionStore_missing(sessions, s)
            /\ req'[r].kind = "continue" =>
                 /\ req[r].session_id = Some(s)
                 /\ ~ SessionStore_missing(sessions, s)
                 /\ DOMAIN sessions' = DOMAIN sessions
      ]_vars

C16_Witness ==
    /\ req["r1"].pc = "done"
    /\ req["r1"].kind = "continue"
    /\ req["r1"].ret # None
    /\ req["r1"].ret[1].session_id = "s1"
    /\ req["r1"].sent = Some(<<<<"cid1">>, <<"rid1">>, <<"rcid1">>>>)
    /\ ~ SessionStore_missing(sessions, "s1")
    /\ sessions["s1"].metadata = <<<<"cid2">>, <<"rid2">>, <<"rcid2">>>>

\* C18: when one download of a batch fails the turn ends there with
\* HTTPError: no file list is yielded, the engine is not invoked, no session
\* is created or updated; the engine is only ever handed a list in which
\* every URL has its downloaded file.
C18_FetchIsAllOrNothing ==
    [][ \A r \in ReqIds :
          /\ (req[r].pc = "fetch" /\ req'[r].pc = "done")
               => /\ req'[r].exc = Some(Exc("HTTPError"))
                  /\ req'[r].ret = None
                  /\ req'[r].files = <<>>
                  /\ req'[r].tmp = None
                  /\ req'[r].engine_calls = 0
                  /\ sessions' = sessions
          /\ (req[r].pc = "fetch" /\ req'[r].pc = "engine")
               => \A i \in 1 .. Len(req'[r].urls) :
                    /\ IsPresent(req'[r].files[i])
                    /\ req'[r].files[i][1] \in DOMAIN req'[r].tmp[1]
      ]_vars

\* r1's batch of two has failed, r2's batch of two has been fetched
C18_Witness ==
    /\ req["r1"].pc = "done"
    /\ req["r1"].exc = Some(Exc("HTTPError"))
    /\ Len(req["r1"].urls) = 2
    /\ req["r1"].engine_calls = 0
    /\ req["r2"].pc = "engine"
    /\ Len(req["r2"].files) = 2
    /\ sessions = EmptyStore

----------------------------------------------------------------------------
(* Properties of the input fetch under SpecFetch *)

\* the downloads of r that have completed
Fetched(r) == { i \in 1 .. Len(req[r].files) : IsPresent(req[r].files[i]) }

\* C19: whatever the order of completion, the files of a batch are pairwise
\* distinct and the i-th file holds the bytes of the i-th URL, so a
\* successful fetch of N URLs yields N distinct files in input order.
C19_DistinctFilesInInputOrder ==
    \A r \in ReqIds :
      req[r].pc \in {"fetch", "engine"} =>
        /\ Len(req[r].files) = Len(req[r].urls)
        /\ req[r].pc = "engine" => Fetched(r) = 1 .. Len(req[r].urls)
        /\ \A i \in Fetched(r) :
             /\ req[r].files[i][1] \in DOMAIN req[r].tmp[1]
             /\ req[r].tmp[1][req[r].files[i][1]] = content(req[r].urls[i])
        /\ \A i, j \in Fetched(r) :
             i # j => req[r].files[i][1] # req[r].files[j][1]

\* three URLs of which the first and the last derive a.png and the second
\* is a_1.png; the first download completed last
C19_Witness ==
    /\ req["r1"].pc = "engine"
    /\ Len(req["r1"].urls) = 3
    /\ url_filename(req["r1"].urls[1]) = NameA
    /\ url_filename(req["r1"].urls[3]) = NameA
    /\ req["r1"].urls[1] # req["r1"].urls[3]
    /\ req["r1"].files[3] = Some(NameA)
    /\ req["r1"].files[2] = Some(NameA1)
    /\ req["r1"].files[1] = Some([stem |-> <<"a", 2>>, ext |-> ".png"])

----------------------------------------------------------------------------
(* Properties of the image urls under SpecUrl *)

\* the prefix the url has: the base URL without its trailing slashes and a
\* "/" when a base URL is configured, "/images/" when none is
ExpectedPrefix(base_url) ==
    IF IsPresent(base_url)
    THEN rstrip(base_url[1]) \o <<"/">>
    ELSE <<"/", "images", "/">>

ExpectedUrl(image, config) ==
    ExpectedPrefix(config.base_url) \o
      ( IF relative_to_raises(image.path, config.output_dir)
        THEN <<image.path.segs[Len(image.path.segs)]>>
        ELSE as_posix(relative_to(image.path, config.output_dir)) )

\* C20: the url of every returned image is the configured base URL without
\* trailing slashes, or "/images" when none is configured, then "/" and the
\* path relative to the output directory, or the bare filename when the path
\* is not under the output directory; no url is empty.
C20_UrlFromBaseOrMount ==
    \A r \in ReqIds :
      (req[r].pc = "done" /\ req[r].ret # None) =>
        \A i \in 1 .. Len(req[r].ret[1].images) :
          /\ req[r].ret[1].images[i].url = ExpectedUrl(req[r].ret[1].images[i], cfg)
          /\ req[r].ret[1].images[i].url # <<>>

----------------------------------------------------------------------------
(* Properties of the synchronous endpoints under SpecApi *)

\* the endpoint answers r's request in this step
Answered(r) == req[r].pc = "done" /\ req'[r].pc = "idle"

\* C21: a failing service call is never answered 2xx: POST /sessions answers
\* 400 for InvalidModelError and for an image-fetch HTTPError and 502 for an
\* engine failure, POST /sessions/{id}/messages answers 404 for an unknown
\* session; a response is a success only when the service returned.
C21_FailuresSurfaceAsErrors ==
    [][ \A r \in ReqIds :
          Answered(r) =>
            LET answer == held'[r].response
                failed == IsPresent(req[r].exc)
                type == req[r].exc[1].type IN
            /\ failed <=> req[r].ret = None
            /\ failed => answer.status_code \notin 200 .. 299
            /\ failed => answer.body = None
            /\ ~ failed => (answer.status_code \in 200 .. 299
                            /\ answer.body = req[r].ret)
            /\ (failed /\ req[r].kind = "start"
                  /\ type \in {"InvalidModelError", "HTTPError"})
                 => answer.status_code = 400
            /\ (failed /\ req[r].kind = "start" /\ type \in EngineFailures)
                 => answer.status_code = 502
            /\ (failed /\ req[r].kind = "continue"
                  /\ type = "SessionNotFoundError")
                 => answer.status_code = 404
      ]_vars

\* a session was started with 201 and a continuation of an unknown session
\* was then answered 404
C21_Witness ==
    /\ sessions # EmptyStore
    /\ held["r1"] # None
    /\ held["r1"].op = "POST /sessions/{session_id}/messages"
    /\ held["r1"].id = Some("s2")
    /\ held["r1"].response.status_code = 404
    /\ held["r1"].response.body = None

----------------------------------------------------------------------------
(* Progress of the Task Runner under SpecLive *)

Submitted(t) == ~ TaskStore_missing(tasks, t)

\* C22: every submitted task eventually has a terminal status, and the one
\* call_webhook invocation made for it eventually returns and ends the unit;
\* no task stays 'pending' or 'processing' forever.
C22_EveryTaskTerminates ==
    \A t \in TaskIds :
      /\ Submitted(t) ~> (Submitted(t) /\ Status(t) \in TerminalStatuses)
      /\ Submitted(t) ~> ( /\ pc[t] = "done"
                           /\ Status(t) \in TerminalStatuses
                           /\ obs[t].calls = 1
                           /\ wh[t].pc = "done"
                           /\ wh[t].ret # None )

\* both units have ended, one after a delivered notification of 'completed',
\* the other after three failed attempts to notify 'failed'
C22_Witness ==
    /\ pc["t1"] = "done" /\ pc["t2"] = "done"
    /\ Status("t1") = "completed" /\ wh["t1"].ret = Some(TRUE)
    /\ Status("t2") = "failed" /\ wh["t2"].ret = Some(FALSE)
    /\ obs["t2"].posts = WEBHOOK_RETRY_ATTEMPTS

----------------------------------------------------------------------------
(* The engine step of the Task Runner under Spec *)

\* C23: the runner hands a task's turn to the engine at most once, and only
\* while the task is 'processing'; once the notifier has been entered, its
\* attempts and retries are followed by no further turn and no status write.
C23_EngineStepNeverRetried ==
    [][ \A t \in TaskIds :
          /\ obs'[t].turns <= 1
          /\ obs'[t].turns # obs[t].turns
               => (Submitted(t) /\ Status(t) = "processing")
          /\ pc[t] \in {"call_webhook", "done"}
               => /\ obs'[t].turns = obs[t].turns
                  /\ tasks'[t] = tasks[t]
                  /\ pc'[t] \in {"call_webhook", "done"}
      ]_vars

\* after one turn, three attempts to notify have failed and the unit ended
C23_Witness ==
    /\ pc["t1"] = "done"
    /\ obs["t1"].turns = 1
    /\ obs["t1"].posts = WEBHOOK_RETRY_ATTEMPTS
    /\ Len(obs["t1"].sleeps) = WEBHOOK_RETRY_ATTEMPTS - 1
    /\ wh["t1"].ret = Some(FALSE)
    /\ Status("t1") = "completed"

----------------------------------------------------------------------------
(* The scratch area of a turn under SpecService *)

\* C24: while the engine is invoked with the paths of downloaded files, the
\* scratch area holds every one of them and no step of any turn changes it;
\* when the invocation ends, by a return or by an exception, the scratch
\* area is gone, and no turn outside its fetch and its engine invocation
\* has one.
C24_ScratchScopedToTurn ==
    [][ \A r \in ReqIds :
          /\ (req[r].pc = "engine" /\ req[r].urls # <<>>)
               => /\ IsPresent(req[r].tmp)
                  /\ \A i \in 1 .. Len(req[r].urls) :
                       /\ IsPresent(req[r].files[i])
                       /\ req[r].files[i][1] \in DOMAIN req[r].tmp[1]
                       /\ req[r].tmp[1][req[r].files[i][1]] =
                            content(req[r].urls[i])
          /\ (req[r].pc = "engine" /\ req'[r].pc = "engine")
               => (req'[r].tmp = req[r].tmp /\ req'[r].files = req[r].files)
          /\ (req[r].pc = "engine" /\ req'[r].pc # "engine")
               => req'[r].tmp = None
          /\ req'[r].pc \notin {"fetch", "engine"} => req'[r].tmp = None
      ]_vars

\* r1's engine invocation has both its files while r2's, given two files of
\* the same names, has ended in a failure
C24_Witness ==
    /\ req["r1"].pc = "engine"
    /\ Len(req["r1"].urls) = 2
    /\ IsPresent(req["r1"].tmp)
    /\ Cardinality(DOMAIN req["r1"].tmp[1]) = 2
    /\ req["r2"].pc = "done"
    /\ Len(req["r2"].urls) = 2
    /\ req["r2"].engine_calls = 1
    /\ IsPresent(req["r2"].exc)
    /\ req["r2"].tmp = None

----------------------------------------------------------------------------
(* The frame of update_metadata under SpecTime *)

\* the caller's update_metadata returns in this step
Updates(c) ==
    /\ held'[c] # None
    /\ held'[c][1].op = "SessionStore.update_metadata"
    /\ held'[c][1].raised = None
    /\ (held'[c] # held[c] \/ sessions' # sessions)

----------------------------------------------------------------------------
(* Failed turns under SpecService *)

\* r's turn ends with an exception in this step
TurnFails(r) ==
    req[r].pc # "done" /\ req'[r].pc = "done" /\ IsPresent(req'[r].exc)

\* C26: a turn that fails, at whatever step, leaves the Session Store as it
\* was: the store changes only in the step in which a turn returns its
\* response; an unresolvable model or an empty prompt fails the turn before
\* any download and before the engine.
C26_FailedTurnLeavesStore ==
    [][ /\ \A r \in ReqIds :
             TurnFails(r) =>
               /\ sessions' = sessions
               /\ req'[r].ret = None
               /\ req'[r].exc[1].type \in {"InvalidModelError", "ValueError"}
                    => /\ req[r].pc = "idle"
                       /\ req'[r].urls = <<>>
                       /\ req'[r].tmp = None
                       /\ req'[r].engine_calls = 0
        /\ sessions' # sessions
             => \E r \in ReqIds : TurnReturns(r) /\ ~ TurnFails(r)
      ]_vars

\* a continuation of s1 failed after its engine invocation and a start
\* was rejected for its model; s1 still holds the metadata it was sent with
C26_Witness ==
    /\ DOMAIN sessions = {"s1"}
    /\ req["r1"].pc = "done"
    /\ req["r1"].kind = "continue"
    /\ req["r1"].session_id = Some("s1")
    /\ IsPresent(req["r1"].exc)
    /\ req["r1"].engine_calls = 1
    /\ req["r1"].sent = Some(sessions["s1"].metadata)
    /\ req["r2"].pc = "done"
    /\ req["r2"].kind = "start"
    /\ req["r2"].exc = Some(Exc("InvalidModelError"))

----------------------------------------------------------------------------
(* The store locks under SpecLock *)

\* the turn of request r is suspended in a download, in the engine
\* invocation or in the fetch of a produced image
TurnSuspended(r) == req[r].pc \in {"fetch", "engine", "serialize"}

\* the unit of task t is suspended in its turn or in the notifier's POST or
\* backoff sleep
UnitSuspended(t) == pc[t] = "start_session" \/ wh[t].pc \in {"post", "sleep"}

\* C27: a turn or a unit suspended in a network call holds neither store
\* lock, and while any of them is suspended both locks are free, so a store
\* operation of another request or task never waits for a network call.
C27_NoLockAcrossNetworkCalls ==
    /\ \A r \in ReqIds :
         TurnSuspended(r) =>
           (locks.session # Some(r) /\ locks.task # Some(r))
    /\ \A t \in TaskIds :
         UnitSuspended(t) =>
           (locks.session # Some(t) /\ locks.task # Some(t))
    /\ ( (\E r \in ReqIds : TurnSuspended(r))
         \/ (\E t \in TaskIds : UnitSuspended(t)) )
         => locks = FreeLocks

\* the task's status was written while r1's turn was in the engine, and is
\* now in its second POST; r1 read s1 while the notifier was at work
C27_Witness ==
    /\ req["r1"].pc = "engine"
    /\ req["r1"].session_id = Some("s1")
    /\ IsPresent(req["r1"].chat)
    /\ wh["t1"].pc = "post"
    /\ obs["t1"].posts = 1
    /\ Status("t1") = "completed"
    /\ locks = FreeLocks

----------------------------------------------------------------------------
(* Overlapping turns of one session under SpecService *)

\* C28: when a continue_session turn returns, the stored metadata is the
\* whole metadata that turn produced, and the turn was sent with the metadata
\* that the most recently completed turn of the session had stored, so no
\* other turn of the session was sent with the same continuation metadata
\* and completed in between.
C28_OverlappingTurnsSerialized ==
    [][ \A r \in ReqIds :
          (TurnReturns(r) /\ req'[r].kind = "continue") =>
            LET s == req'[r].session_id[1] IN
            /\ SessionStore_get(sessions', s).data.metadata
                 = req'[r].output[1].metadata
            /\ req'[r].sent = Some(SessionStore_get(sessions, s).data.metadata)
      ]_vars

============================================================================
